---------------------------- MODULE Spec2Model ----------------------------
(***************************************************************************)
(* Charter-party merge engine: ChangeTracker (change_tracker.py) and       *)
(* DocumentProcessor.merge_documents (document_processor.py), driven as    *)
(* in upload_files (app.py).                                               *)
(*                                                                         *)
(* Text abstraction.  A text is a sequence of lexical segments; a segment  *)
(* is a string naming the clause it stands for.  Each regular expression   *)
(* of the source is modelled by the set of segments it matches, and a      *)
(* match is the whole segment (segments are delimited so that no pattern   *)
(* crosses a segment boundary).  A Python str value (old_value, new_value) *)
(* is a sequence of segments; the empty string is << >>.                   *)
(***************************************************************************)
EXTENDS Integers, Sequences, FiniteSets, TLC

(***************************************************************************)
(* Bounds of the model.                                                    *)
(***************************************************************************)
\* longest base text, in segments
MaxLen == 2
\* number of direct track_change calls, over all trackers
MaxCalls == 4

\* number of records tracked before they are formatted for display
MaxRecords == 2
\* longest recap text, in segments
MaxRecapLen == 2

\* the ChangeTracker instances (one per request)
Trackers == {1, 2}

VARIABLES
    base_cp_text,  \* the base text handed to merge_documents
    recap_data,    \* the FieldMap handed to merge_documents
    tracker,       \* tracker[t] = self.changes of ChangeTracker t
    pc,            \* pc[t] = position of the merge_documents call using tracker t
    rule_idx,      \* rule_idx[t] = index into merge_rules of the next rule
    merged_text,   \* merged_text[t] = local merged_text of that call
    changes,       \* changes[t] = local list `changes` of that call
    clock,         \* datetime.now(): a logical clock, one tick per tracked change
    summary_arg,   \* argument of the last generate_summary call
    summary,       \* value returned by the last generate_summary call
    display,       \* the last format_change_for_display or
                   \* export_changes_to_dict call: the records it was given
                   \* and the display records it returned
    recap_text,    \* the text extract_recap_data reads from the recap file
    extract_pc     \* position of the extract_recap_data call

\* the state of the calls that are neither a merge nor a summary
other_calls == <<display, recap_text, extract_pc>>

vars == <<base_cp_text, recap_data, tracker, pc, rule_idx, merged_text,
          changes, clock, summary_arg, summary, display, recap_text, extract_pc>>

(***************************************************************************)
(* ChangeTracker                                                           *)
(***************************************************************************)

\* A mutant: the test for unequal values is dropped.
determine_change_type_no_equal(old_value, new_value) ==
    IF old_value = << >> /\ new_value # << >> THEN "addition"
    ELSE IF old_value # << >> /\ new_value = << >> THEN "deletion"
    ELSE "modification"

\* change_tracker.py:26-35.  Python truthiness of a str: non-empty.
determine_change_type(old_value, new_value) ==
    IF old_value = << >> /\ new_value # << >> THEN "addition"
    ELSE IF old_value # << >> /\ new_value = << >> THEN "deletion"
    ELSE IF old_value # new_value THEN "modification"
    ELSE "no_change"

\* A mutant: the id is taken from the shared clock, not from the own log.
new_change_global_id(log, field, old_value, new_value, description, now) ==
    [id          |-> now + 1,
     field       |-> field,
     old_value   |-> old_value,
     new_value   |-> new_value,
     description |-> description,
     timestamp   |-> now,
     change_type |-> determine_change_type(old_value, new_value)]

\* change_tracker.py:13-21: the record track_change builds for a log `log`.
new_change(log, field, old_value, new_value, description, now) ==
    [id          |-> Len(log) + 1,
     field       |-> field,
     old_value   |-> old_value,
     new_value   |-> new_value,
     description |-> description,
     timestamp   |-> now,
     change_type |-> determine_change_type(old_value, new_value)]


\* change_tracker.py:11-24 for a sequence of calls made in order against one
\* log: calls[i] = <<old_value, new_value>>.  Each call reads the clock once.
RECURSIVE track_changes(_, _, _, _, _)
track_changes(log, calls, field, description, now) ==
    IF calls = << >> THEN log
    ELSE track_changes(
            Append(log, new_change(log, field, calls[1][1], calls[1][2],
                                   description, now)),
            Tail(calls), field, description, now + 1)

(***************************************************************************)
(* DocumentProcessor.merge_documents: the rule catalog                     *)
(***************************************************************************)

\* a rule without a 'recap_field' key
NoRecapField == "<none>"

\* A mutant: the catalog with the vessel_name rule ahead of charter_date.
merge_rules_vessel_first == <<
    [field |-> "vessel_name", callable |-> TRUE, recap_field |-> "vessel_name",
     description |-> "Updated vessel name"],
    [field |-> "charter_date", callable |-> TRUE, recap_field |-> NoRecapField,
     description |-> "Updated charter date to June 10, 2025"],
    [field |-> "owner_details", callable |-> FALSE, recap_field |-> NoRecapField,
     description |-> "Updated owner details"],
    [field |-> "charterer_details", callable |-> FALSE, recap_field |-> NoRecapField,
     description |-> "Updated charterer details"],
    [field |-> "charter_period", callable |-> TRUE, recap_field |-> NoRecapField,
     description |-> "Updated charter period with index rate and optional period"],
    [field |-> "delivery_port", callable |-> FALSE, recap_field |-> "delivery_port",
     description |-> "Updated delivery port"],
    [field |-> "laycan", callable |-> FALSE, recap_field |-> NoRecapField,
     description |-> "Added laycan period"] >>

\* document_processor.py:162-207.  callable = the replacement is a lambda.
merge_rules == <<
    [field |-> "charter_date", callable |-> TRUE, recap_field |-> NoRecapField,
     description |-> "Updated charter date to June 10, 2025"],
    [field |-> "vessel_name", callable |-> TRUE, recap_field |-> "vessel_name",
     description |-> "Updated vessel name"],
    [field |-> "owner_details", callable |-> FALSE, recap_field |-> NoRecapField,
     description |-> "Updated owner details"],
    [field |-> "charterer_details", callable |-> FALSE, recap_field |-> NoRecapField,
     description |-> "Updated charterer details"],
    [field |-> "charter_period", callable |-> TRUE, recap_field |-> NoRecapField,
     description |-> "Updated charter period with index rate and optional period"],
    [field |-> "delivery_port", callable |-> FALSE, recap_field |-> "delivery_port",
     description |-> "Updated delivery port"],
    [field |-> "laycan", callable |-> FALSE, recap_field |-> NoRecapField,
     description |-> "Added laycan period"] >>

\* The segments a base text is made of.
\*   plain          text no pattern matches
\*   date_old       'made and concluded in London 5th day of May 19 90'
\*   vessel_old     'Steamship/Motorship "OLD NAME"'
\*   vessel_new     'Steamship/Motorship "LUNAR STAR 1"'
\*   owner_old      'Between A, B, C, D, E, F'
\*   charterer_old  'and X COMPANY ... SINGAPORE ... SINGAPORE'
\*   period_old     'about minimum 4 months to maximum 6 months'
\*   delivery_old   'at on dropping last outward sea pilot X (intention Y)'
\*   laycan_old     'WOULD SUGGEST 1 (ONE) MONTH AFTER DIVER SURVEY ...'
\*   te_anchor      'as the Charterers or their Agents shall direct, on the
\*                   following conditions:'
BaseSegments == {"plain", "date_old", "vessel_old", "vessel_new", "owner_old",
                 "charterer_old", "period_old", "delivery_old", "laycan_old",
                 "te_anchor"}

\* document_processor.py:239: exclusion_pattern, numbered after the rules'
\* patterns.
ExclusionPattern == 8

\* document_processor.py:165,171,178,184,190,196,203,239: does the pattern of
\* rule k match segment seg.  The rewritten date and vessel spans match their
\* own patterns again; no other replacement text matches any pattern.
pattern_matches(k, seg) ==
    CASE k = 1 -> seg \in {"date_old", "date_new"}
      [] k = 2 -> seg \in {"vessel_old", "vessel_new"}
      [] k = 3 -> seg = "owner_old"
      [] k = 4 -> seg = "charterer_old"
      [] k = 5 -> seg = "period_old"
      [] k = 6 -> seg = "delivery_old"
      [] k = 7 -> seg = "laycan_old"
      [] k = ExclusionPattern -> seg = "te_anchor"

\* A mutant: the charter_period lambda returns the span it matched.
replacement_keeps_period(k, seg) ==
    CASE k = 1 -> <<"date_new">>
      [] k = 2 -> <<"vessel_new">>
      [] k = 3 -> <<"owner_new">>
      [] k = 4 -> <<"charterer_new">>
      [] k = 5 -> <<seg>>
      [] k = 6 -> <<"delivery_new">>
      [] k = 7 -> <<"laycan_new">>

\* document_processor.py:166,172,179,185,191,197,204: the replacement of
\* rule k (for a lambda: applied to the matched segment seg), as a str.
replacement(k, seg) ==
    CASE k = 1 -> <<"date_new">>
      [] k = 2 -> <<"vessel_new">>
      [] k = 3 -> <<"owner_new">>
      [] k = 4 -> <<"charterer_new">>
      [] k = 5 -> <<"period_new">>
      [] k = 6 -> <<"delivery_new">>
      [] k = 7 -> <<"laycan_new">>

(***************************************************************************)
(* The re module, on segments                                              *)
(***************************************************************************)

\* Segments of a replacement template: a group reference r'\1', an escape
\* the template syntax knows (backslash n), one it rejects (backslash q).
\* the character a known escape expands to
Newline == "<newline>"
GroupRef == "<backslash 1>"
EscNewline == "<backslash n>"
EscBad == "<backslash q>"

\* re's expansion of a replacement template (document_processor.py:234,242)
\* for a match whose group 1 is `group1`: [ok, text].  ok = FALSE stands for
\* re.error('bad escape').
RECURSIVE expand_template(_, _)
expand_template(template, group1) ==
    IF template = << >> THEN [ok |-> TRUE, text |-> << >>]
    ELSE LET rest == expand_template(Tail(template), group1)
             seg  == Head(template)
             here == IF seg = GroupRef THEN group1
                     ELSE IF seg = EscNewline THEN <<Newline>>
                     ELSE <<seg>>
         IN  [ok   |-> rest.ok /\ seg # EscBad,
              text |-> here \o rest.text]

\* A mutant: a failed search is not told from a match at the first segment.
re_search_unchecked(k, text) ==
    IF \E i \in 1..Len(text) : pattern_matches(k, text[i])
    THEN CHOOSE i \in 1..Len(text) :
            /\ pattern_matches(k, text[i])
            /\ \A j \in 1..(i-1) : ~pattern_matches(k, text[j])
    ELSE IF text = << >> THEN 0 ELSE 1

\* re.search(pattern, text): index of the first matching segment, 0 if none.
re_search(k, text) ==
    IF \E i \in 1..Len(text) : pattern_matches(k, text[i])
    THEN CHOOSE i \in 1..Len(text) :
            /\ pattern_matches(k, text[i])
            /\ \A j \in 1..(i-1) : ~pattern_matches(k, text[j])
    ELSE 0

\* re.sub(pattern, template, text) with a str template: every match is
\* replaced by the expanded template.  [ok, text].
RECURSIVE re_sub_template(_, _, _)
re_sub_template(k, template, text) ==
    IF text = << >> THEN [ok |-> TRUE, text |-> << >>]
    ELSE LET rest == re_sub_template(k, template, Tail(text))
             seg  == Head(text)
             exp  == expand_template(template, <<seg>>)
         IN  IF pattern_matches(k, seg)
             THEN [ok |-> exp.ok /\ rest.ok, text |-> exp.text \o rest.text]
             ELSE [ok |-> rest.ok, text |-> <<seg>> \o rest.text]

\* A mutant: the substitution stops after the first match (count=1).
re_sub_callable_first(k, text) ==
    LET m == re_search(k, text)
    IN  IF m = 0 THEN [text |-> text, calls |-> << >>]
        ELSE [text  |-> [text EXCEPT ![m] = replacement(k, text[m])[1]],
              calls |-> << << <<text[m]>>, replacement(k, text[m]) >> >>]

\* re.sub(pattern, replace_func, text) with the callback of
\* document_processor.py:216-222: every match, left to right, is handed to
\* the callback, which computes the new text and tracks the change.
\* [text, calls]: the new text and the track_change calls made, in order.
RECURSIVE re_sub_callable(_, _)
re_sub_callable(k, text) ==
    IF text = << >> THEN [text |-> << >>, calls |-> << >>]
    ELSE LET rest == re_sub_callable(k, Tail(text))
             seg  == Head(text)
         IN  IF pattern_matches(k, seg)
             THEN [text  |-> replacement(k, seg) \o rest.text,
                   calls |-> << << <<seg>>, replacement(k, seg) >> >> \o rest.calls]
             ELSE [text |-> <<seg>> \o rest.text, calls |-> rest.calls]

(***************************************************************************)
(* ChangeTracker.generate_summary                                          *)
(***************************************************************************)

\* A mutant: a record of any other type is counted as a modification.
RECURSIVE count_every_change(_, _, _)
count_every_change(log, i, acc) ==
    IF i > Len(log) THEN acc
    ELSE LET change_type == log[i].change_type
             next == IF change_type = "addition"
                        THEN [acc EXCEPT !.additions = @ + 1]
                     ELSE IF change_type = "deletion"
                        THEN [acc EXCEPT !.deletions = @ + 1]
                     ELSE [acc EXCEPT !.modifications = @ + 1]
         IN  count_every_change(log, i + 1, next)

\* change_tracker.py:67-74: the counting loop, from record i on.
RECURSIVE count_change_types(_, _, _)
count_change_types(log, i, acc) ==
    IF i > Len(log) THEN acc
    ELSE LET change_type == log[i].change_type
             next == IF change_type = "addition"
                        THEN [acc EXCEPT !.additions = @ + 1]
                     ELSE IF change_type = "modification"
                        THEN [acc EXCEPT !.modifications = @ + 1]
                     ELSE IF change_type = "deletion"
                        THEN [acc EXCEPT !.deletions = @ + 1]
                     ELSE acc
         IN  count_change_types(log, i + 1, next)

\* A mutant: the parts are joined with a blank, the comma lost.
RECURSIVE join_with_blank(_)
join_with_blank(parts) ==
    IF parts = << >> THEN ""
    ELSE IF Len(parts) = 1 THEN parts[1]
    ELSE parts[1] \o " " \o join_with_blank(Tail(parts))

\* ', '.join(parts)
RECURSIVE join(_)
join(parts) ==
    IF parts = << >> THEN ""
    ELSE IF Len(parts) = 1 THEN parts[1]
    ELSE parts[1] \o ", " \o join(Tail(parts))

\* the dict {} returned for an empty log: no key at all
EmptyDict == [key \in {} |-> 0]

\* change_tracker.py:48-95.  fields_modified is list(set(...)): a set.
generate_summary(log, now) ==
    IF log = << >>
    THEN [total_changes   |-> 0,
          change_types    |-> EmptyDict,
          fields_modified |-> {},
          summary         |-> "No changes were made to the document."]
    ELSE LET change_types == count_change_types(log, 1,
                                [additions |-> 0, modifications |-> 0, deletions |-> 0])
             summary_parts ==
                (IF change_types.additions > 0
                    THEN <<ToString(change_types.additions) \o " addition(s)">>
                    ELSE << >>)
                \o (IF change_types.modifications > 0
                    THEN <<ToString(change_types.modifications) \o " modification(s)">>
                    ELSE << >>)
                \o (IF change_types.deletions > 0
                    THEN <<ToString(change_types.deletions) \o " deletion(s)">>
                    ELSE << >>)
         IN  [total_changes   |-> Len(log),
              change_types    |-> change_types,
              fields_modified |-> {log[i].field : i \in 1..Len(log)},
              summary         |-> "Document successfully merged with "
                                     \o join(summary_parts) \o ".",
              timestamp       |-> now]

(***************************************************************************)
(* ChangeTracker: records for display.  Here a str is the sequence of its  *)
(* characters.                                                             *)
(***************************************************************************)

\* change_tracker.py:103-104: the max_length handed to _truncate_text
DisplayLength == 200

\* A mutant: a text of exactly max_length characters is cut as well.
truncate_text_at_limit(text, max_length) ==
    IF text = << >> THEN << >>
    ELSE IF Len(text) < max_length THEN text
    ELSE SubSeq(text, 1, max_length) \o <<".", ".", ".">>

\* change_tracker.py:124-130
truncate_text(text, max_length) ==
    IF text = << >> THEN << >>
    ELSE IF Len(text) <= max_length THEN text
    ELSE SubSeq(text, 1, max_length) \o <<".", ".", ".">>

\* change_tracker.py:111-121
field_names ==
    [vessel_name        |-> "Vessel Name",
     charter_date       |-> "Charter Date",
     owner_details      |-> "Owner Details",
     charterer_details  |-> "Charterer Details",
     charter_period     |-> "Charter Period",
     delivery_port      |-> "Delivery Port",
     laycan             |-> "Laycan Period",
     trading_exclusions |-> "Trading Exclusions",
     dry_docking        |-> "Dry-Docking Clause"]

\* the letters, for str.title
LowerCase == <<"a", "b", "c", "d", "e", "f", "g", "h", "i", "j", "k", "l", "m",
               "n", "o", "p", "q", "r", "s", "t", "u", "v", "w", "x", "y", "z">>
UpperCase == <<"A", "B", "C", "D", "E", "F", "G", "H", "I", "J", "K", "L", "M",
               "N", "O", "P", "Q", "R", "S", "T", "U", "V", "W", "X", "Y", "Z">>

\* str.islower, str.isupper, str.upper and str.lower of one character
islower(c) == \E i \in 1..26 : LowerCase[i] = c
isupper(c) == \E i \in 1..26 : UpperCase[i] = c
upper(c) == IF islower(c) THEN UpperCase[CHOOSE i \in 1..26 : LowerCase[i] = c] ELSE c
lower(c) == IF isupper(c) THEN LowerCase[CHOOSE i \in 1..26 : UpperCase[i] = c] ELSE c

\* str.replace('_', ' ')
replace_underscores(chars) ==
    [i \in 1..Len(chars) |-> IF chars[i] = "_" THEN " " ELSE chars[i]]

\* str.title: a cased character is upper-cased after an uncased one (or at
\* the start) and lower-cased after a cased one
RECURSIVE title(_, _)
title(chars, previous_is_cased) ==
    IF chars = << >> THEN << >>
    ELSE LET c == Head(chars)
         IN  IF islower(c) \/ isupper(c)
             THEN <<IF previous_is_cased THEN lower(c) ELSE upper(c)>>
                  \o title(Tail(chars), TRUE)
             ELSE <<c>> \o title(Tail(chars), FALSE)

\* the characters of the field names that are not in field_names
characters ==
    [hire_rate  |-> <<"h", "i", "r", "e", "_", "r", "a", "t", "e">>,
     IMO_number |-> <<"I", "M", "O", "_", "n", "u", "m", "b", "e", "r">>]

\* change_tracker.py:109-122.  A label of the table is kept as one string.
format_field_name(field) ==
    IF field \in DOMAIN field_names THEN field_names[field]
    ELSE title(replace_underscores(characters[field]), FALSE)

\* change_tracker.py:97-107
format_change_for_display(change) ==
    [id          |-> change.id,
     field       |-> format_field_name(change.field),
     description |-> change.description,
     change_type |-> change.change_type,
     old_value   |-> truncate_text(change.old_value, DisplayLength),
     new_value   |-> truncate_text(change.new_value, DisplayLength),
     timestamp   |-> change.timestamp]

\* change_tracker.py:132-134
export_changes_to_dict(log) ==
    [i \in 1..Len(log) |-> format_change_for_display(log[i])]

(***************************************************************************)
(* DocumentProcessor.merge_documents: clauses and the summary section      *)
(***************************************************************************)

\* document_processor.py:241: f"\n\nTRADING EXCLUSIONS:\n{value}\n"
trading_exclusions_block(value) ==
    <<"TRADING EXCLUSIONS:">> \o value \o <<Newline>>

\* document_processor.py:248
dd_clause == <<"DRY-DOCKING CLAUSE">>

\* A mutant: enumerate(changes) without its start, numbering from 0.
RECURSIVE summary_lines_from_zero(_, _)
summary_lines_from_zero(log, i) ==
    IF i > Len(log) THEN << >>
    ELSE <<ToString(i - 1) \o ". " \o log[i].description>>
         \o summary_lines_from_zero(log, i + 1)

\* document_processor.py:258-259: the numbered lines, from change i on.
RECURSIVE summary_lines(_, _)
summary_lines(log, i) ==
    IF i > Len(log) THEN << >>
    ELSE <<ToString(i) \o ". " \o log[i].description>> \o summary_lines(log, i + 1)

\* document_processor.py:255-262
summary_section(log) ==
    <<"=== SUMMARY OF CHANGES ===">>
    \o (IF log # << >>
        THEN <<"The following modifications were made to the base Charter Party:">>
             \o summary_lines(log, 1)
             \o <<"=== END SUMMARY ===">>
        ELSE <<"No changes were made to the base Charter Party document.",
               "=== END SUMMARY ===">>)

(***************************************************************************)
(* DocumentProcessor.extract_recap_data.  A recap text is a sequence of    *)
(* segments; a value is a sequence of tokens, " " being white space.       *)
(***************************************************************************)

\* The segments a recap text is made of.
\*   plain            text no pattern matches
\*   vessel_imo       'MV LUNAR STAR 1 IMO 9543210'
\*   imo              'IMO 1234567'
\*   flag             'Cyprus flag'
\*   built            'BLT 2012'
\*   dwt              'DWT 38,000'
\*   delivery         'Delivery DLOSP Yeosu '
\*   laycan           'Laycan: 10-15 June '
\*   hire_rate        'at 107.00 % bhsi38'
\*   period           'About 11 to about 14 months'
\*   optional_period  'opt about 10 - about 14 months at $ 11,500'
\*   redelivery       'REDEL DOP 1SP WW WITHIN TRADING LIMITS ... '
\*   bunkers          'VLSFO ABOUT 500 MT AND MGO ABOUT 60 MT'
\*   commission       'Commission: 3.75 % address commission'
\*   charterer        'LOUIS DREYFUS COMPANY ... '
\*   owner            'MV LUNAR STAR 1 SHIPPING COMPANY LIMITED '
\*   trading          'TRADING EXCLUSIONS ... +'
\*   hire_payment     'Hire payment clause: ... Conversion'
RecapSegments ==
    {"plain", "vessel_imo", "imo", "flag", "built", "dwt", "delivery", "laycan",
     "hire_rate", "period", "optional_period", "redelivery", "bunkers",
     "commission", "charterer", "owner", "trading", "hire_payment"}

\* document_processor.py:105-121: the keys of patterns, in dict order
patterns ==
    <<"vessel_name", "imo_number", "flag", "built_year", "dwt", "delivery_port",
      "laycan", "hire_rate", "period", "optional_period", "redelivery_range",
      "bunkers_delivery", "commission", "charterer", "owner">>

\* document_processor.py:106-120, 145, 150: the pattern of key matches
\* within segment seg (the vessel line holds the IMO number too)
recap_pattern_matches(key, seg) ==
    CASE key = "vessel_name"        -> seg = "vessel_imo"
      [] key = "imo_number"         -> seg \in {"vessel_imo", "imo"}
      [] key = "flag"               -> seg = "flag"
      [] key = "built_year"         -> seg = "built"
      [] key = "dwt"                -> seg = "dwt"
      [] key = "delivery_port"      -> seg = "delivery"
      [] key = "laycan"             -> seg = "laycan"
      [] key = "hire_rate"          -> seg = "hire_rate"
      [] key = "period"             -> seg = "period"
      [] key = "optional_period"    -> seg = "optional_period"
      [] key = "redelivery_range"   -> seg = "redelivery"
      [] key = "bunkers_delivery"   -> seg = "bunkers"
      [] key = "commission"         -> seg = "commission"
      [] key = "charterer"          -> seg = "charterer"
      [] key = "owner"              -> seg = "owner"
      [] key = "trading_exclusions" -> seg = "trading"
      [] key = "hire_payment"       -> seg = "hire_payment"

\* the number of groups of the pattern of key: len(match.groups())
groups(key) ==
    CASE key \in {"redelivery_range", "charterer", "owner"} -> 0
      [] key \in {"period", "bunkers_delivery"} -> 2
      [] key = "optional_period" -> 3
      [] OTHER -> 1

\* match.group(n) of the match of key's pattern in seg.  Group 0 is the
\* whole match; a group taken by a class that admits white space carries it.
group(key, seg, n) ==
    IF n = 0
    THEN IF key \in {"redelivery_range", "charterer", "owner"}
         THEN <<seg, " ">> ELSE <<seg>>
    ELSE LET token == seg \o ".group(" \o ToString(n) \o ")"
         IN  IF key \in {"trading_exclusions", "hire_payment"}
             THEN <<" ", token, " ">>
             ELSE IF key \in {"vessel_name", "delivery_port", "laycan"}
             THEN <<token, " ">>
             ELSE <<token>>

\* str.strip
RECURSIVE strip(_)
strip(value) ==
    IF value = << >> THEN << >>
    ELSE IF Head(value) = " " THEN strip(Tail(value))
    ELSE IF value[Len(value)] = " " THEN strip(SubSeq(value, 1, Len(value) - 1))
    ELSE value

\* extracted_data[key] = value
put(data, key, value) ==
    [k \in DOMAIN data \cup {key} |-> IF k = key THEN value ELSE data[k]]

\* A mutant: the bunkers entry is stored like any entry with groups.
store_entry_bunkers_as_one(data, key, seg) ==
    IF key = "period"
    THEN put(data, key, group(key, seg, 1) \o <<" to ">> \o group(key, seg, 2)
                           \o <<" months">>)
    ELSE IF key = "optional_period"
    THEN put(data, key, group(key, seg, 1) \o <<" to ">> \o group(key, seg, 2)
                           \o <<" months at $">> \o group(key, seg, 3))
    ELSE IF groups(key) > 0
    THEN put(data, key, strip(group(key, seg, 1)))
    ELSE put(data, key, strip(group(key, seg, 0)))

\* document_processor.py:128-142: the body of `if match:`, seg being the
\* match.  IndexError is raised by group(n) with n > groups(key).
store_entry(data, key, seg) ==
    IF key = "period"
    THEN IF groups(key) >= 2
         THEN put(data, key, group(key, seg, 1) \o <<" to ">> \o group(key, seg, 2)
                                \o <<" months">>)
         ELSE put(data, key, strip(group(key, seg, 0)))
    ELSE IF key = "optional_period"
    THEN IF groups(key) >= 3
         THEN put(data, key, group(key, seg, 1) \o <<" to ">> \o group(key, seg, 2)
                                \o <<" months at $">> \o group(key, seg, 3))
         ELSE put(data, key, strip(group(key, seg, 0)))
    ELSE IF key = "bunkers_delivery"
    THEN IF groups(key) >= 2
         THEN put(put(data, "vlsfo_quantity", group(key, seg, 1)),
                  "mgo_quantity", group(key, seg, 2))
         ELSE put(data, key, strip(group(key, seg, 0)))
    ELSE IF groups(key) > 0
    THEN put(data, key, strip(group(key, seg, 1)))
    ELSE put(data, key, strip(group(key, seg, 0)))

\* re.search(pattern, recap_text, ...): the place of the first segment the
\* pattern of key matches, 0 for None
recap_search(key, text) ==
    IF \E i \in 1..Len(text) : recap_pattern_matches(key, text[i])
    THEN CHOOSE i \in 1..Len(text) :
            /\ recap_pattern_matches(key, text[i])
            /\ \A j \in 1..(i - 1) : ~recap_pattern_matches(key, text[j])
    ELSE 0

\* document_processor.py:125-142: the loop, from entry i of patterns on
RECURSIVE extract_entries(_, _, _)
extract_entries(i, text, data) ==
    IF i > Len(patterns) THEN data
    ELSE LET key   == patterns[i]
             match == recap_search(key, text)
         IN  extract_entries(i + 1, text,
                 IF match # 0 THEN store_entry(data, key, text[match]) ELSE data)

\* document_processor.py:123-154, on the text read at line 102
extract_recap_data(text) ==
    LET extracted_data  == extract_entries(1, text, [k \in {} |-> << >>])
        trading_section == recap_search("trading_exclusions", text)
        with_trading ==
            IF trading_section # 0
            THEN put(extracted_data, "trading_exclusions",
                     strip(group("trading_exclusions", text[trading_section], 1)))
            ELSE extracted_data
        hire_section == recap_search("hire_payment", text)
    IN  IF hire_section # 0
        THEN put(with_trading, "hire_payment",
                 strip(group("hire_payment", text[hire_section], 1)))
        ELSE with_trading

(***************************************************************************)
(* Inputs                                                                  *)
(***************************************************************************)

\* base texts of at most MaxLen segments
Texts == UNION {[1..n -> BaseSegments] : n \in 0..MaxLen}

\* the FieldMap keys merge_documents reads or a rule names as recap_field
RecapKeys == {"vessel_name", "delivery_port", "trading_exclusions"}

\* values of recap_data['trading_exclusions']: plain text, text holding a
\* backslash-n, text holding a backslash followed by a letter re rejects
ExclusionValues == {<<"exclusions">>, <<EscNewline>>, <<EscBad>>}

\* the FieldMaps: any subset of the keys
RecapMaps ==
    UNION { { [key \in keys |->
                 IF key = "trading_exclusions" THEN value ELSE <<key>>]
              : value \in ExclusionValues }
            : keys \in SUBSET RecapKeys }

\* arguments (field, old_value, new_value) of direct track_change calls
CallArgs == { <<"vessel_name", << >>, <<"x">>>>,
              <<"vessel_name", <<"x">>, << >>>>,
              <<"notes", <<"x">>, <<"y">>>>,
              <<"notes", <<"x">>, <<"x">>>>,
              <<"notes", << >>, << >>>> }

\* summary before any generate_summary call
NoSummary == [none |-> TRUE]

\* a value of n characters: the digits 1, 2, ..., 9, 0, 1, ...
Characters(n) == [i \in 1..n |-> ToString(i % 10)]

\* arguments (field, old_value, new_value) of the track_change calls whose
\* records are formatted for display: values of 0, 1, 200 and 201
\* characters; fields of the label table and others
DisplayArgs ==
    { <<"vessel_name", << >>, Characters(DisplayLength)>>,
      <<"laycan", Characters(DisplayLength + 1), Characters(1)>>,
      <<"hire_rate", Characters(1), Characters(DisplayLength + 1)>>,
      <<"IMO_number", Characters(DisplayLength), << >>>> }

\* display before any call
NoDisplay == [call |-> "none"]

\* recap texts of at most MaxRecapLen segments
RecapTexts == UNION {[1..n -> RecapSegments] : n \in 0..MaxRecapLen}

\* a merge_documents call is running on tracker t
InMerge(t) == pc[t] \in {"rules", "exclusions", "dry_docking", "summary"}

(***************************************************************************)
(* State machine                                                           *)
(***************************************************************************)

\* app.py:75-76: fresh trackers, no merge started
Init ==
    /\ base_cp_text \in Texts
    /\ recap_data \in RecapMaps
    /\ tracker = [t \in Trackers |-> << >>]
    /\ pc = [t \in Trackers |-> "idle"]
    /\ rule_idx = [t \in Trackers |-> 0]
    /\ merged_text = [t \in Trackers |-> << >>]
    /\ changes = [t \in Trackers |-> << >>]
    /\ clock = 0
    /\ summary_arg = << >>
    /\ summary = NoSummary
    /\ display = NoDisplay
    /\ recap_text = << >>
    /\ extract_pc = "idle"

\* change_tracker.py:11-24, called by the owner of tracker t outside a merge
track_change(t, field, old_value, new_value, description) ==
    /\ ~InMerge(t)
    /\ tracker' = [tracker EXCEPT ![t] =
            track_changes(@, << <<old_value, new_value>> >>, field, description, clock)]
    /\ clock' = clock + 1
    /\ UNCHANGED <<base_cp_text, recap_data, pc, rule_idx, merged_text, changes,
                   summary_arg, summary, other_calls>>

\* change_tracker.py:48-95
generate_summary_call(log) ==
    /\ summary_arg' = log
    /\ summary' = generate_summary(log, clock)
    /\ UNCHANGED <<base_cp_text, recap_data, tracker, pc, rule_idx, merged_text,
                   changes, clock, other_calls>>

\* change_tracker.py:97-107, called with record i of tracker t
format_change_for_display_call(t, i) ==
    /\ i \in 1..Len(tracker[t])
    /\ display' = [call  |-> "format_change_for_display",
                   arg   |-> <<tracker[t][i]>>,
                   value |-> <<format_change_for_display(tracker[t][i])>>]
    /\ UNCHANGED <<base_cp_text, recap_data, tracker, pc, rule_idx, merged_text,
                   changes, clock, summary_arg, summary, recap_text, extract_pc>>

\* change_tracker.py:132-134, called on tracker t
export_changes_to_dict_call(t) ==
    /\ display' = [call  |-> "export_changes_to_dict",
                   arg   |-> tracker[t],
                   value |-> export_changes_to_dict(tracker[t])]
    /\ UNCHANGED <<base_cp_text, recap_data, tracker, pc, rule_idx, merged_text,
                   changes, clock, summary_arg, summary, recap_text, extract_pc>>

\* document_processor.py:100-154 (app.py:80), the text being read already
extract_recap_data_call ==
    /\ extract_pc = "idle"
    /\ recap_data' = extract_recap_data(recap_text)
    /\ extract_pc' = "done"
    /\ UNCHANGED <<base_cp_text, tracker, pc, rule_idx, merged_text, changes,
                   clock, summary_arg, summary, display, recap_text>>

\* document_processor.py:156-159: entry of merge_documents with tracker t.
\* The core is single-threaded: one merge runs at a time.
merge_begin(t) ==
    /\ pc[t] = "idle"
    /\ \A u \in Trackers : ~InMerge(u)
    /\ pc' = [pc EXCEPT ![t] = "rules"]
    /\ rule_idx' = [rule_idx EXCEPT ![t] = 1]
    /\ merged_text' = [merged_text EXCEPT ![t] = base_cp_text]
    /\ changes' = [changes EXCEPT ![t] = << >>]
    /\ UNCHANGED <<base_cp_text, recap_data, tracker, clock, summary_arg, summary, other_calls>>

\* records appended to a log that grew from `before` to `after`
Appended(before, after) == SubSeq(after, Len(before) + 1, Len(after))

\* document_processor.py:210-234: one iteration of the rule loop
apply_rule(t) ==
    /\ pc[t] = "rules"
    /\ LET k    == rule_idx[t]
           rule == merge_rules[k]
           text == merged_text[t]
           done == [pc EXCEPT ![t] =
                        IF k = Len(merge_rules) THEN "exclusions" ELSE "rules"]
       IN  /\ rule_idx' = [rule_idx EXCEPT ![t] = k + 1]
           /\ IF rule.callable
              THEN \* 216-224
                   LET sub == re_sub_callable(k, text)
                       log == track_changes(tracker[t], sub.calls, rule.field,
                                            rule.description, clock)
                   IN  /\ tracker' = [tracker EXCEPT ![t] = log]
                       /\ changes' = [changes EXCEPT ![t] = @ \o Appended(tracker[t], log)]
                       /\ clock' = clock + Len(sub.calls)
                       /\ merged_text' = [merged_text EXCEPT ![t] = sub.text]
                       /\ pc' = done
              ELSE \* 227-234
                   LET m == re_search(k, text)
                   IN  IF m = 0
                       THEN /\ pc' = done
                            /\ UNCHANGED <<tracker, changes, clock, merged_text>>
                       ELSE LET old_text == <<text[m]>>
                                new_text == replacement(k, text[m])
                                log == track_changes(tracker[t],
                                          << <<old_text, new_text>> >>,
                                          rule.field, rule.description, clock)
                                sub == re_sub_template(k, new_text, text)
                            IN  /\ tracker' = [tracker EXCEPT ![t] = log]
                                /\ changes' = [changes EXCEPT ![t] =
                                                  @ \o Appended(tracker[t], log)]
                                /\ clock' = clock + 1
                                /\ IF sub.ok
                                   THEN /\ merged_text' = [merged_text EXCEPT ![t] = sub.text]
                                        /\ pc' = done
                                   ELSE /\ pc' = [pc EXCEPT ![t] = "failed"]
                                        /\ UNCHANGED merged_text
    /\ UNCHANGED <<base_cp_text, recap_data, summary_arg, summary, other_calls>>

\* document_processor.py:237-245
insert_trading_exclusions(t) ==
    /\ pc[t] = "exclusions"
    /\ LET text == merged_text[t]
       IN  IF "trading_exclusions" \in DOMAIN recap_data
              /\ re_search(ExclusionPattern, text) # 0
           THEN LET trading_exclusions ==
                        trading_exclusions_block(recap_data["trading_exclusions"])
                    sub == re_sub_template(ExclusionPattern,
                                           <<GroupRef>> \o trading_exclusions, text)
                    log == track_changes(tracker[t],
                              << << << >>, trading_exclusions >> >>,
                              "trading_exclusions",
                              "Added trading exclusions clause", clock)
                IN  IF sub.ok
                    THEN /\ merged_text' = [merged_text EXCEPT ![t] = sub.text]
                         /\ tracker' = [tracker EXCEPT ![t] = log]
                         /\ changes' = [changes EXCEPT ![t] =
                                           @ \o Appended(tracker[t], log)]
                         /\ clock' = clock + 1
                         /\ pc' = [pc EXCEPT ![t] = "dry_docking"]
                    ELSE \* re.error leaves merge_documents at line 242
                         /\ pc' = [pc EXCEPT ![t] = "failed"]
                         /\ UNCHANGED <<merged_text, tracker, changes, clock>>
           ELSE /\ pc' = [pc EXCEPT ![t] = "dry_docking"]
                /\ UNCHANGED <<merged_text, tracker, changes, clock>>
    /\ UNCHANGED <<base_cp_text, recap_data, rule_idx, summary_arg, summary, other_calls>>

\* A mutant: the dry-docking clause is left out.
append_dry_docking_skipped(t) ==
    /\ pc[t] = "dry_docking"
    /\ pc' = [pc EXCEPT ![t] = "summary"]
    /\ UNCHANGED <<base_cp_text, recap_data, tracker, rule_idx, merged_text,
                   changes, clock, summary_arg, summary, other_calls>>

\* document_processor.py:247-252
append_dry_docking(t) ==
    /\ pc[t] = "dry_docking"
    /\ LET log == track_changes(tracker[t], << << << >>, dd_clause >> >>,
                                "dry_docking", "Added dry-docking clause", clock)
       IN  /\ merged_text' = [merged_text EXCEPT ![t] = @ \o dd_clause]
           /\ tracker' = [tracker EXCEPT ![t] = log]
           /\ changes' = [changes EXCEPT ![t] = @ \o Appended(tracker[t], log)]
           /\ clock' = clock + 1
    /\ pc' = [pc EXCEPT ![t] = "summary"]
    /\ UNCHANGED <<base_cp_text, recap_data, rule_idx, summary_arg, summary, other_calls>>

\* document_processor.py:254-266: the summary section, and the return
append_summary(t) ==
    /\ pc[t] = "summary"
    /\ merged_text' = [merged_text EXCEPT ![t] = @ \o summary_section(changes[t])]
    /\ pc' = [pc EXCEPT ![t] = "done"]
    /\ UNCHANGED <<base_cp_text, recap_data, tracker, rule_idx, changes, clock,
                   summary_arg, summary, other_calls>>

\* app.py:74-93: requests, each merging with its own tracker and then
\* summarising the returned changes
Next ==
    \E t \in Trackers :
        \/ merge_begin(t)
        \/ apply_rule(t)
        \/ insert_trading_exclusions(t)
        \/ append_dry_docking(t)
        \/ append_summary(t)
        \/ (pc[t] = "done" /\ generate_summary_call(changes[t]))

Spec == Init /\ [][Next]_vars

\* no merge input: the trackers alone
InitTracker ==
    /\ Init
    /\ base_cp_text = << >>
    /\ recap_data = [key \in {} |-> << >>]

\* the ChangeTracker interface, called in any order on independent trackers
NextTracker ==
    \E t \in Trackers :
        \/ \E args \in CallArgs :
                /\ clock < MaxCalls
                /\ track_change(t, args[1], args[2], args[3], "manual change")
        \/ generate_summary_call(tracker[t])

SpecTracker == InitTracker /\ [][NextTracker]_vars

\* records are tracked, then formatted for display one by one or exported
NextDisplay ==
    \E t \in Trackers :
        \/ \E args \in DisplayArgs :
                /\ clock < MaxRecords
                /\ track_change(t, args[1], args[2], args[3], "manual change")
        \/ \E i \in 1..MaxRecords : format_change_for_display_call(t, i)
        \/ export_changes_to_dict_call(t)

SpecDisplay == InitTracker /\ [][NextDisplay]_vars

\* a recap text has been read and is yet to be searched
InitExtract ==
    /\ recap_text \in RecapTexts
    /\ extract_pc = "idle"
    /\ recap_data = [key \in {} |-> << >>]
    /\ base_cp_text = << >>
    /\ tracker = [t \in Trackers |-> << >>]
    /\ pc = [t \in Trackers |-> "idle"]
    /\ rule_idx = [t \in Trackers |-> 0]
    /\ merged_text = [t \in Trackers |-> << >>]
    /\ changes = [t \in Trackers |-> << >>]
    /\ clock = 0
    /\ summary_arg = << >>
    /\ summary = NoSummary
    /\ display = NoDisplay

NextExtract == extract_recap_data_call

SpecExtract == InitExtract /\ [][NextExtract]_vars

(***************************************************************************)
(* Properties of ChangeTracker (checked under SpecTracker)                 *)
(***************************************************************************)

\* C1: after any interleaving of track_change calls on independent
\* trackers, the ids in each tracker's log are exactly 1..N in creation
\* order: record i carries id i, and the records lie in the order of their
\* creation instants.  Ids are counted per tracker, never across trackers.
C1_IdsAreOneToN ==
    \A t \in Trackers :
        /\ \A i \in 1..Len(tracker[t]) : tracker[t][i].id = i
        /\ \A i, j \in 1..Len(tracker[t]) :
              i < j => tracker[t][i].timestamp < tracker[t][j].timestamp

\* C1 witness: two trackers, each with two records, created alternately.
C1_Witness ==
    /\ Len(tracker[1]) = 2
    /\ Len(tracker[2]) = 2
    /\ tracker[1][1].timestamp < tracker[2][1].timestamp
    /\ tracker[2][1].timestamp < tracker[1][2].timestamp
    /\ tracker[1][2].timestamp < tracker[2][2].timestamp

\* the records of all logs
AllRecords ==
    UNION { {tracker[t][i] : i \in 1..Len(tracker[t])} : t \in Trackers }

\* C2: the stored change_type is decided by (old_value, new_value) alone:
\* empty old and non-empty new is an addition, non-empty old and empty new a
\* deletion, unequal non-empty values a modification, equal values (both
\* empty included) no_change; records agreeing on the two values agree on
\* the type whatever their field, id and instant.
C2_ChangeTypeTable ==
    /\ \A r \in AllRecords :
          /\ (r.old_value = << >> /\ r.new_value # << >>)
                => r.change_type = "addition"
          /\ (r.old_value # << >> /\ r.new_value = << >>)
                => r.change_type = "deletion"
          /\ (r.old_value # << >> /\ r.new_value # << >>
                /\ r.old_value # r.new_value)
                => r.change_type = "modification"
          /\ r.old_value = r.new_value => r.change_type = "no_change"
    /\ \A r, q \in AllRecords :
          (r.old_value = q.old_value /\ r.new_value = q.new_value)
             => r.change_type = q.change_type

\* C2 witness: the logs hold a record of each of the four types.
C2_Witness ==
    {r.change_type : r \in AllRecords}
       = {"addition", "deletion", "modification", "no_change"}

\* C10 as claimed: generate_summary of an empty log returns total_changes
\* 0, the three typed counts present and zero, no modified field and the
\* fixed sentence.
C10_EmptySummaryHasZeroCounts ==
    ("total_changes" \in DOMAIN summary /\ summary_arg = << >>)
       => /\ summary.total_changes = 0
          /\ {"additions", "modifications", "deletions"}
                \subseteq DOMAIN summary.change_types
          /\ \A key \in DOMAIN summary.change_types : summary.change_types[key] = 0
          /\ summary.fields_modified = {}
          /\ summary.summary = "No changes were made to the document."

\* records of a log with the given change_type
CountType(log, type) ==
    Cardinality({i \in 1..Len(log) : log[i].change_type = type})

\* a typed count of a summary; a count the summary does not carry adds
\* nothing to the sum
TypedCount(result, key) ==
    IF key \in DOMAIN result.change_types THEN result.change_types[key] ELSE 0

\* the sum of the additions, modifications and deletions counts
TypedSum(result) ==
    TypedCount(result, "additions") + TypedCount(result, "modifications")
        + TypedCount(result, "deletions")

\* C11: for every log handed to generate_summary, the recorder's own or
\* another, total_changes is the length of the log, and the additions,
\* modifications and deletions counts add up to total_changes less the
\* number of no_change records; the sum differs from total_changes only
\* when the log holds a no_change record.
C11_CountsSumToTypedRecords ==
    "total_changes" \in DOMAIN summary
    => /\ summary.total_changes = Len(summary_arg)
       /\ TypedSum(summary)
             = summary.total_changes - CountType(summary_arg, "no_change")
       /\ TypedSum(summary) # summary.total_changes
             => \E i \in 1..Len(summary_arg) :
                   summary_arg[i].change_type = "no_change"

\* C11 witness: a log with a no_change record and a typed record has been
\* summarised, and the typed counts add up to less than total_changes.
C11_Witness ==
    /\ "total_changes" \in DOMAIN summary
    /\ CountType(summary_arg, "no_change") > 0
    /\ CountType(summary_arg, "no_change") < Len(summary_arg)
    /\ TypedSum(summary) < summary.total_changes
    /\ TypedSum(summary) > 0

\* the sentence for a additions, m modifications and d deletions
NarrativeFor(a, m, d) ==
    LET A == ToString(a) \o " addition(s)"
        M == ToString(m) \o " modification(s)"
        D == ToString(d) \o " deletion(s)"
        listed ==
            CASE a > 0 /\ m > 0 /\ d > 0 -> A \o ", " \o M \o ", " \o D
              [] a > 0 /\ m > 0 /\ d = 0 -> A \o ", " \o M
              [] a > 0 /\ m = 0 /\ d > 0 -> A \o ", " \o D
              [] a = 0 /\ m > 0 /\ d > 0 -> M \o ", " \o D
              [] a > 0 /\ m = 0 /\ d = 0 -> A
              [] a = 0 /\ m > 0 /\ d = 0 -> M
              [] a = 0 /\ m = 0 /\ d > 0 -> D
              [] a = 0 /\ m = 0 /\ d = 0 -> ""
    IN  "Document successfully merged with " \o listed \o "."

\* C12: for a non-empty log the narrative is "Document successfully merged
\* with " followed by the non-zero typed counts, each as "<count>
\* addition(s)", "<count> modification(s)", "<count> deletion(s)", in that
\* order, separated by ", ", and a final ".".
C12_NarrativeListsNonZeroCounts ==
    ("total_changes" \in DOMAIN summary /\ summary_arg # << >>)
    => summary.summary = NarrativeFor(CountType(summary_arg, "addition"),
                                      CountType(summary_arg, "modification"),
                                      CountType(summary_arg, "deletion"))

\* C12 witness: a log of two additions and one modification has been
\* summarised as in the scenario of the specification.
C12_Witness ==
    /\ "total_changes" \in DOMAIN summary
    /\ CountType(summary_arg, "addition") = 2
    /\ CountType(summary_arg, "modification") = 1
    /\ CountType(summary_arg, "deletion") = 0
    /\ summary.total_changes = 3
    /\ summary.summary
          = "Document successfully merged with 2 addition(s), 1 modification(s)."

(***************************************************************************)
(* Properties of the display records (checked under SpecDisplay)           *)
(***************************************************************************)

\* value is text as displayed: text itself when it has at most 200
\* characters, else its first 200 characters and three dots
Truncated(value, text) ==
    IF Len(text) <= 200
    THEN value = text
    ELSE /\ Len(value) = 203
         /\ \A i \in 1..200 : value[i] = text[i]
         /\ \A i \in 201..203 : value[i] = "."

\* label is the name of field as displayed: the label of the table for a
\* key of the table; else the name, character by character, an underscore
\* being a blank and a letter being upper case exactly when no letter
\* stands before it
Labelled(label, field) ==
    IF field \in DOMAIN field_names
    THEN label = field_names[field]
    ELSE LET name == characters[field]
         IN  /\ Len(label) = Len(name)
             /\ \A i \in 1..Len(name) :
                   label[i] =
                      IF name[i] = "_" THEN " "
                      ELSE IF i > 1 /\ (islower(name[i - 1]) \/ isupper(name[i - 1]))
                           THEN lower(name[i])
                           ELSE upper(name[i])

\* shown is the display record of change
Displays(shown, change) ==
    /\ Truncated(shown.old_value, change.old_value)
    /\ Truncated(shown.new_value, change.new_value)
    /\ Labelled(shown.field, change.field)

\* the value of the last display call is as claimed for its argument
DisplayAsClaimed ==
    display.call \in {"format_change_for_display", "export_changes_to_dict"}
    => /\ Len(display.value) = Len(display.arg)
       /\ \A i \in 1..Len(display.arg) :
             Displays(display.value[i], display.arg[i])

\* C14: format_change_for_display returns a record whose old_value and
\* new_value are the record's values, cut to their first 200 characters
\* followed by "..." when longer than 200, and whose field is the label of
\* the table or the title-cased name with blanks for underscores; neither
\* it nor export_changes_to_dict changes the log of any tracker (a step
\* that tracks no change leaves every log, and so every record, as it was).
C14_DisplayTruncatesAndLeavesLog ==
    [][/\ display' # display => DisplayAsClaimed'
       /\ clock' = clock => tracker' = tracker]_vars

\* C14 witness: a record with a value of 201 characters and a field outside
\* the table has been formatted: the value shown has 203 characters, the
\* field shown is "Hire Rate", and the tracker still holds the 201
\* characters.
C14_Witness ==
    /\ display.call = "format_change_for_display"
    /\ display.arg[1].field = "hire_rate"
    /\ Len(display.arg[1].new_value) = 201
    /\ Len(display.value[1].new_value) = 203
    /\ display.value[1].old_value = display.arg[1].old_value
    /\ display.value[1].field = <<"H", "i", "r", "e", " ", "R", "a", "t", "e">>
    /\ \E t \in Trackers : \E i \in 1..Len(tracker[t]) :
          tracker[t][i] = display.arg[1]

(***************************************************************************)
(* Properties of extract_recap_data (checked under SpecExtract)            *)
(***************************************************************************)

\* the keys of a FieldMap
FieldMapKeys ==
    {"vessel_name", "imo_number", "flag", "built_year", "dwt", "delivery_port",
     "laycan", "hire_rate", "period", "optional_period", "redelivery_range",
     "vlsfo_quantity", "mgo_quantity", "commission", "charterer", "owner",
     "trading_exclusions", "hire_payment"}

\* the pattern of a catalog entry or section search matches the recap text
Matched(key) ==
    \E i \in 1..Len(recap_text) : recap_pattern_matches(key, recap_text[i])

\* C15: for every recap text the extraction completes; the FieldMap holds
\* the key of a catalog entry or section search if and only if its pattern
\* matched; the bunkers entry gives the keys vlsfo_quantity and mgo_quantity
\* when it matched and neither when it did not, and never bunkers_delivery;
\* every key is of the enumerated set.
C15_KeysAreTheMatchedPatterns ==
    /\ ENABLED extract_recap_data_call \/ extract_pc = "done"
    /\ extract_pc = "done"
       => /\ \A key \in FieldMapKeys \ {"vlsfo_quantity", "mgo_quantity"} :
                key \in DOMAIN recap_data <=> Matched(key)
          /\ "vlsfo_quantity" \in DOMAIN recap_data <=> Matched("bunkers_delivery")
          /\ "mgo_quantity" \in DOMAIN recap_data <=> Matched("bunkers_delivery")
          /\ "bunkers_delivery" \notin DOMAIN recap_data
          /\ DOMAIN recap_data \subseteq FieldMapKeys

\* C15 witness: a text with the bunkers line and no IMO number has been
\* searched: the two quantities are there, imo_number is not.
C15_Witness ==
    /\ extract_pc = "done"
    /\ Matched("bunkers_delivery")
    /\ ~Matched("imo_number")
    /\ DOMAIN recap_data = {"vlsfo_quantity", "mgo_quantity"}

(***************************************************************************)
(* Properties of merge_documents (checked under Spec)                      *)
(***************************************************************************)

\* occurrences of segment seg in a text
CountSeg(text, seg) == Cardinality({i \in 1..Len(text) : text[i] = seg})

\* records of a log with the given field
CountField(log, field) == Cardinality({i \in 1..Len(log) : log[i].field = field})

\* positions of a text the pattern of rule k matches
Occurrences(k, text) == {i \in 1..Len(text) : pattern_matches(k, text[i])}

\* the j-th smallest element of a set of positions
Nth(positions, j) ==
    CHOOSE i \in positions : Cardinality({x \in positions : x < i}) = j - 1

\* the call on tracker t has been through the loop iteration of rule k
Applied(t, k) ==
    \/ pc[t] = "rules" /\ rule_idx[t] > k
    \/ pc[t] \in {"exclusions", "dry_docking", "summary", "done", "failed"}

\* this step is the loop iteration of rule k in the call on tracker t
RuleStep(t, k) ==
    pc[t] = "rules" /\ rule_idx[t] = k /\ rule_idx'[t] = k + 1

\* C3 as claimed: a rule naming a recap_field that the FieldMap lacks is
\* skipped: it logs no record for its field and leaves the spans its
\* pattern matches as they were in the base text.
C3_AbsentRecapFieldSkipsRule ==
    \A t \in Trackers : \A k \in 1..Len(merge_rules) :
        (/\ merge_rules[k].recap_field # NoRecapField
         /\ merge_rules[k].recap_field \notin DOMAIN recap_data
         /\ Applied(t, k))
        => /\ CountField(changes[t], merge_rules[k].field) = 0
           /\ pc[t] \in {"rules", "exclusions"} =>
                 \A i \in Occurrences(k, base_cp_text) :
                     merged_text[t][i] = base_cp_text[i]

\* C4 as claimed: a fixed-string rule whose pattern occurs in the text logs
\* exactly one record (old_value the first matched span, new_value the
\* fixed string) and rewrites that first occurrence only, so the text holds
\* as many rewritten spans as the log holds records of the rule.
C4_FixedRuleRewritesFirstOnly ==
    \A t \in Trackers : \A k \in 1..Len(merge_rules) :
        (/\ ~merge_rules[k].callable
         /\ Occurrences(k, base_cp_text) # {}
         /\ Applied(t, k))
        => LET first == Nth(Occurrences(k, base_cp_text), 1)
               fixed == replacement(k, base_cp_text[first])
           IN  /\ CountField(changes[t], merge_rules[k].field) = 1
               /\ \A i \in 1..Len(changes[t]) :
                     changes[t][i].field = merge_rules[k].field
                        => /\ changes[t][i].old_value = <<base_cp_text[first]>>
                           /\ changes[t][i].new_value = fixed
               /\ CountSeg(merged_text[t], fixed[1])
                     = CountField(changes[t], merge_rules[k].field)

\* C5: the iteration of a rule whose replacement is a function rewrites
\* every occurrence of its pattern and appends one record per occurrence,
\* left to right, with old_value the matched span, new_value the computed
\* replacement, and the rule's field and description.
C5_CallableRuleRewritesAll ==
    [][\A t \in Trackers : \A k \in 1..Len(merge_rules) :
          (RuleStep(t, k) /\ merge_rules[k].callable)
          => LET text == merged_text[t]
                 occ  == Occurrences(k, text)
                 new  == Appended(changes[t], changes'[t])
             IN  /\ SubSeq(changes'[t], 1, Len(changes[t])) = changes[t]
                 /\ Len(merged_text'[t]) = Len(text)
                 /\ \A i \in 1..Len(text) :
                       merged_text'[t][i] =
                          IF i \in occ THEN replacement(k, text[i])[1] ELSE text[i]
                 /\ Len(new) = Cardinality(occ)
                 /\ \A j \in 1..Len(new) :
                       /\ new[j].old_value = <<text[Nth(occ, j)]>>
                       /\ new[j].new_value = replacement(k, text[Nth(occ, j)])
                       /\ new[j].field = merge_rules[k].field
                       /\ new[j].description = merge_rules[k].description
                 /\ Appended(tracker[t], tracker'[t]) = new
      ]_vars

\* C5 witness: the vessel_name rule has run on a text with two occurrences
\* and logged both, left to right.
C5_Witness ==
    \E t \in Trackers :
        /\ pc[t] = "rules" /\ rule_idx[t] = 3
        /\ base_cp_text = <<"vessel_old", "vessel_new">>
        /\ Len(changes[t]) = 2
        /\ changes[t][1].old_value = <<"vessel_old">>
        /\ changes[t][2].old_value = <<"vessel_new">>
        /\ merged_text[t] = <<"vessel_new", "vessel_new">>

\* C6: the iteration of a rule whose pattern does not occur in the current
\* text changes neither the text nor any log, and the merge goes on to the
\* next rule (or to the insertions after the last rule).
C6_UnmatchedRuleIsSkipped ==
    [][\A t \in Trackers : \A k \in 1..Len(merge_rules) :
          (RuleStep(t, k) /\ Occurrences(k, merged_text[t]) = {})
          => /\ merged_text'[t] = merged_text[t]
             /\ changes'[t] = changes[t]
             /\ tracker' = tracker
             /\ CountField(changes'[t], merge_rules[k].field) = 0
             /\ pc'[t] = IF k = Len(merge_rules) THEN "exclusions" ELSE "rules"
      ]_vars

\* C6 witness: a merge of a non-empty text that no rule matches has
\* completed, with the dry-docking record as its only record.
C6_Witness ==
    \E t \in Trackers :
        /\ pc[t] = "done"
        /\ base_cp_text = <<"plain", "te_anchor">>
        /\ Len(changes[t]) = 1
        /\ \A k \in 1..Len(merge_rules) :
              CountField(changes[t], merge_rules[k].field) = 0

\* C7 as claimed: a clause is inserted only at its anchor (never when the
\* anchor is absent), and every block inserted into the text has exactly
\* one record, with old_value empty and new_value the inserted block.
C7_InsertedBlocksMatchRecords ==
    \A t \in Trackers :
        pc[t] \in {"dry_docking", "summary", "done"}
        => /\ CountSeg(merged_text[t], "TRADING EXCLUSIONS:")
                 = CountField(changes[t], "trading_exclusions")
           /\ CountSeg(base_cp_text, "te_anchor") = 0
                 => CountField(changes[t], "trading_exclusions") = 0
           /\ CountSeg(merged_text[t], dd_clause[1])
                 = CountField(changes[t], "dry_docking")
           /\ \A i \in 1..Len(changes[t]) :
                 changes[t][i].field \in {"trading_exclusions", "dry_docking"}
                    => changes[t][i].old_value = << >>

\* C8: a completed merge ends its text with exactly one summary block: the
\* header, the introduction, line i = "i. " and the description of record i
\* of the returned log for i = 1..N, and the end mark; the no-changes
\* sentence stands in the text if and only if the returned log is empty;
\* writing the block logs nothing (the tracker's log is the returned log).
C8_SummaryBlockListsTheLog ==
    \A t \in Trackers :
        pc[t] = "done"
        => LET text == merged_text[t]
               n    == Len(changes[t])
               last == Len(text)
           IN  /\ CountSeg(text, "=== SUMMARY OF CHANGES ===") = 1
               /\ CountSeg(text, "=== END SUMMARY ===") = 1
               /\ text[last] = "=== END SUMMARY ==="
               /\ n > 0 =>
                     /\ last >= n + 3
                     /\ text[last - n - 2] = "=== SUMMARY OF CHANGES ==="
                     /\ text[last - n - 1] =
                          "The following modifications were made to the base Charter Party:"
                     /\ \A i \in 1..n :
                           text[last - n - 1 + i] =
                              ToString(i) \o ". " \o changes[t][i].description
               /\ CountSeg(text, "No changes were made to the base Charter Party document.") > 0
                     <=> n = 0
               /\ tracker[t] = changes[t]

\* C8 witness: a completed merge whose block lists three records.
C8_Witness ==
    \E t \in Trackers :
        /\ pc[t] = "done"
        /\ Len(changes[t]) = 3
        /\ merged_text[t][Len(merged_text[t]) - 1] = "3. Added dry-docking clause"
        /\ merged_text[t][Len(merged_text[t]) - 3] = "1. Updated vessel name"

\* a record without its timestamp
Untimed(r) ==
    [id |-> r.id, field |-> r.field, old_value |-> r.old_value,
     new_value |-> r.new_value, description |-> r.description,
     change_type |-> r.change_type]

\* C9: two completed merges of the same base text and FieldMap, each with
\* its own fresh tracker, return the same text and logs that agree record
\* by record in everything but the timestamp.
C9_MergeIsDeterministic ==
    (pc[1] = "done" /\ pc[2] = "done")
    => /\ merged_text[1] = merged_text[2]
       /\ Len(changes[1]) = Len(changes[2])
       /\ \A i \in 1..Len(changes[1]) :
             Untimed(changes[1][i]) = Untimed(changes[2][i])

\* C9 witness: two completed merges with several records, created at
\* different instants.
C9_Witness ==
    /\ pc[1] = "done" /\ pc[2] = "done"
    /\ Len(changes[1]) >= 3
    /\ changes[1][1].timestamp # changes[2][1].timestamp

\* C13 as claimed: a merge that failed has left the tracker it was given
\* as it was before the call (empty: app.py:76 hands over a fresh one).
C13_FailedMergeLeavesTrackerAsBefore ==
    \A t \in Trackers : pc[t] = "failed" => tracker[t] = << >>

\* the order of the claim: the seven rules, then the two insertions
CatalogOrder ==
    <<"charter_date", "vessel_name", "owner_details", "charterer_details",
      "charter_period", "delivery_port", "laycan", "trading_exclusions",
      "dry_docking">>

\* the place of a field in CatalogOrder
Rank(field) == CHOOSE i \in 1..Len(CatalogOrder) : CatalogOrder[i] = field

\* the base text with the rewrites of rules 1..n made, and no other
RewrittenBy(n) ==
    [i \in 1..Len(base_cp_text) |->
        IF \E k \in 1..n : pattern_matches(k, base_cp_text[i])
        THEN LET k == CHOOSE j \in 1..n : pattern_matches(j, base_cp_text[i])
             IN  replacement(k, base_cp_text[i])[1]
        ELSE base_cp_text[i]]

\* C16: the rules work in catalog order on one text: when the loop stands
\* before rule k the text is the base text as rewritten by rules 1..k-1, and
\* after the loop by all seven; the log holds records of earlier entries
\* only, in catalog order (charter_date first, dry_docking last); and the
\* returned log is the log of the tracker, which was fresh at the call.
C16_RulesApplyInCatalogOrder ==
    \A t \in Trackers :
        LET log == changes[t]
        IN  /\ \A i, j \in 1..Len(log) :
                   i < j => Rank(log[i].field) <= Rank(log[j].field)
            /\ pc[t] = "rules" =>
                   /\ merged_text[t] = RewrittenBy(rule_idx[t] - 1)
                   /\ \A i \in 1..Len(log) : Rank(log[i].field) < rule_idx[t]
            /\ pc[t] = "exclusions" =>
                   /\ merged_text[t] = RewrittenBy(7)
                   /\ \A i \in 1..Len(log) : Rank(log[i].field) <= 7
            /\ pc[t] = "dry_docking" =>
                   \A i \in 1..Len(log) : Rank(log[i].field) <= 8
            /\ pc[t] \in {"rules", "exclusions", "dry_docking", "summary", "done"} =>
                   tracker[t] = log

\* C16 witness: the base text holds the vessel clause ahead of the date
\* clause, and the completed merge has logged charter_date, vessel_name and
\* dry_docking, in that order, into a text that holds both rewrites.
C16_Witness ==
    \E t \in Trackers :
        /\ pc[t] = "done"
        /\ base_cp_text = <<"vessel_old", "date_old">>
        /\ Len(changes[t]) = 3
        /\ changes[t][1].field = "charter_date"
        /\ changes[t][2].field = "vessel_name"
        /\ changes[t][3].field = "dry_docking"
        /\ SubSeq(merged_text[t], 1, 2) = <<"vessel_new", "date_new">>
        /\ tracker[t] = changes[t]

\* C17: a completed merge has appended the dry-docking clause to the text
\* and logged, as the last record, a dry_docking addition of that clause;
\* the returned log is not empty and the text does not hold the no-changes
\* sentence.
C17_DryDockingIsAlwaysAppended ==
    \A t \in Trackers :
        pc[t] = "done"
        => LET log  == changes[t]
               text == merged_text[t]
               n    == Len(log)
           IN  /\ n > 0
               /\ log[n].field = "dry_docking"
               /\ log[n].change_type = "addition"
               /\ log[n].old_value = << >>
               /\ log[n].new_value = dd_clause
               /\ CountField(log, "dry_docking") = 1
               /\ CountSeg(text, dd_clause[1]) = 1
               /\ \E i \in 1..Len(text) - 1 :
                     /\ text[i] = dd_clause[1]
                     /\ text[i + 1] = "=== SUMMARY OF CHANGES ==="
               /\ CountSeg(text,
                     "No changes were made to the base Charter Party document.") = 0

\* C17 witness: a merge of the empty base text with the empty FieldMap has
\* completed; its log is the dry_docking record alone.
C17_Witness ==
    \E t \in Trackers :
        /\ pc[t] = "done"
        /\ base_cp_text = << >>
        /\ DOMAIN recap_data = {}
        /\ Len(changes[t]) = 1
        /\ changes[t][1].field = "dry_docking"

\* C18 as claimed: every record a merge logs has a non-empty new_value that
\* differs from its old_value, and its change_type is addition or
\* modification.
C18_EveryRecordIsARealChange ==
    \A t \in Trackers : \A i \in 1..Len(changes[t]) :
        LET r == changes[t][i]
        IN  /\ r.new_value # << >>
            /\ r.new_value # r.old_value
            /\ r.change_type \in {"addition", "modification"}

\* C18 amended: every record a merge logs has a non-empty new_value and its
\* change_type is addition, modification or no_change, never deletion; it
\* is no_change exactly when new_value equals old_value, which happens only
\* to a computed rule (charter_date, vessel_name) whose match already equals
\* its replacement.
C18_RecordsAreNeverDeletions ==
    \A t \in Trackers : \A i \in 1..Len(changes[t]) :
        LET r == changes[t][i]
        IN  /\ r.new_value # << >>
            /\ r.change_type \in {"addition", "modification", "no_change"}
            /\ r.change_type = "no_change" <=> r.new_value = r.old_value
            /\ r.change_type = "no_change"
                  => r.field \in {"charter_date", "vessel_name"}
            /\ r.change_type = "addition" <=> r.old_value = << >>

\* C18 witness: the vessel_name rule has matched a clause that already
\* names the new vessel and logged a no_change record.
C18_Witness ==
    \E t \in Trackers : \E i \in 1..Len(changes[t]) :
        /\ changes[t][i].field = "vessel_name"
        /\ changes[t][i].change_type = "no_change"
        /\ changes[t][i].old_value = <<"vessel_new">>
        /\ changes[t][i].new_value = <<"vessel_new">>

=============================================================================
